---- MODULE Spec2Model ----
(***************************************************************************)
(* Slack usergroup membership sync from Airtable (sync.js).                *)
(* Strings are sequences of one-character strings, JavaScript values are   *)
(* tagged records, and main() is cut at its await points.                  *)
(***************************************************************************)
EXTENDS Integers, Sequences, FiniteSets, TLC

VARIABLES
    env,                            \* the three required secrets: present or not
    pc,                             \* position of main(): start, list, update, done, failed
    table,                          \* tableName of the airtableList call in progress
    srvCoordinators,                \* the Coordinators table held by the listing service
    srvHubs,                        \* the Hubs table held by the listing service
    offset,                         \* airtableList: cursor of the request in flight (0: none)
    records,                        \* airtableList: records accumulated so far
    listRequests,                   \* table-listing requests issued, in order
    coordinators,                   \* main: result of the first airtableList
    slackIdByCoordinatorRecordId,   \* main: index by record id
    slackIdByCoordinatorName,       \* main: index by canonical name
    invalidSlackIdCount,            \* main: coordinator records without a Slack id
    hubs,                           \* main: result of the second airtableList
    hubIdx,                         \* main: position of the hub loop (hub whose call is in flight)
    hubLocals,                      \* main: per hub, the loop body's tokens / mapped / slackUserIds
    hubState,                       \* per hub: how its loop iteration ended
    calls,                          \* usergroups.users.update requests issued, in order
    inFlight,                       \* number of update requests awaiting their response
    exitCode,                       \* process exit code (-1 while running)
    thrown,                         \* the error main() rejected with ("" if none)
    fnPc,                           \* helper under test: "off", "call" or "ret"
    fnName,                         \* helper under test
    fnArg,                          \* its argument
    fnRes                           \* its result

mainVars == <<env, pc, table, srvCoordinators, srvHubs, offset, records, listRequests,
              coordinators, slackIdByCoordinatorRecordId, slackIdByCoordinatorName,
              invalidSlackIdCount, hubs, hubIdx, hubLocals, hubState, calls, inFlight,
              exitCode, thrown>>
fnVars == <<fnPc, fnName, fnArg, fnRes>>
vars == <<mainVars, fnVars>>

----------------------------------------------------------------------------
(* Characters and strings *)

UpperChars == <<"A","B","C","D","E","F","G","H","I","J","K","L","M",
                "N","O","P","Q","R","S","T","U","V","W","X","Y","Z">>
LowerChars == <<"a","b","c","d","e","f","g","h","i","j","k","l","m",
                "n","o","p","q","r","s","t","u","v","w","x","y","z">>
DigitChars == <<"0","1","2","3","4","5","6","7","8","9">>

Range(f) == { f[i] : i \in DOMAIN f }

\* String.prototype.trim strips these (of the characters the model uses)
WhiteSpace == {" ", "\t", "\n", "\r"}

\* the character class of /[,;\|\n]+/
Delimiters == {",", ";", "|", "\n"}

\* the character class [A-Z0-9] of the Slack id pattern
IdChar(c) == c \in Range(UpperChars) \cup Range(DigitChars)

\* the character class [UW] of the Slack id pattern
IdStart(c) == c \in {"U", "W"}

LowerOf(c) ==
    IF c \in Range(UpperChars)
    THEN LowerChars[CHOOSE i \in DOMAIN UpperChars : UpperChars[i] = c]
    ELSE c

toLowerCase(s) == [i \in DOMAIN s |-> LowerOf(s[i])]

RECURSIVE trimStart(_)
trimStart(s) ==
    IF s # <<>> /\ Head(s) \in WhiteSpace THEN trimStart(Tail(s)) ELSE s

RECURSIVE trimEnd(_)
trimEnd(s) ==
    IF s # <<>> /\ s[Len(s)] \in WhiteSpace THEN trimEnd(SubSeq(s, 1, Len(s) - 1)) ELSE s

trim(s) == trimEnd(trimStart(s))

startsWith(s, p) == Len(s) >= Len(p) /\ SubSeq(s, 1, Len(p)) = p

\* s.split(/[,;\|\n]+/g): the text between maximal runs of delimiters
RECURSIVE split(_)
split(s) ==
    IF \A i \in DOMAIN s : s[i] \notin Delimiters
    THEN <<s>>
    ELSE LET p == CHOOSE i \in DOMAIN s :
                      s[i] \in Delimiters /\ \A j \in 1..(i - 1) : s[j] \notin Delimiters
             q == IF \E i \in p..Len(s) : s[i] \notin Delimiters
                  THEN CHOOSE i \in p..Len(s) :
                           s[i] \notin Delimiters /\ \A j \in p..(i - 1) : s[j] \in Delimiters
                  ELSE Len(s) + 1
         IN <<SubSeq(s, 1, p - 1)>> \o split(SubSeq(s, q, Len(s)))

----------------------------------------------------------------------------
(* JavaScript values *)

JsVal(t, s, items, attrs, n) == [t |-> t, s |-> s, items |-> items, attrs |-> attrs, n |-> n]
JsNull == JsVal("null", <<>>, <<>>, <<>>, 0)
JsUndefined == JsVal("undefined", <<>>, <<>>, <<>>, 0)
JsStr(s) == JsVal("string", s, <<>>, <<>>, 0)
JsArr(items) == JsVal("array", <<>>, items, <<>>, 0)
\* a plain object: attrs is a sequence of <<key, value>> pairs
JsObj(attrs) == JsVal("object", <<>>, <<>>, attrs, 0)
JsNum(n) == JsVal("number", <<>>, <<>>, <<>>, n)
\* the two values an empty object literal inherits under an all-lowercase key
ObjectConstructor == JsVal("function", <<>>, <<>>, <<>>, 0)
ObjectPrototype == JsVal("prototype", <<>>, <<>>, <<>>, 0)

isNullish(v) == v.t \in {"null", "undefined"}

\* Boolean(v)
truthy(v) ==
    CASE v.t \in {"null", "undefined"} -> FALSE
      [] v.t = "string" -> v.s # <<>>
      [] v.t = "number" -> v.n # 0
      [] OTHER -> TRUE

\* arr.filter(Boolean) on an array of values
RECURSIVE filterBoolean(_)
filterBoolean(arr) ==
    IF arr = <<>> THEN <<>>
    ELSE (IF truthy(Head(arr)) THEN <<Head(arr)>> ELSE <<>>) \o filterBoolean(Tail(arr))

\* parts.filter(Boolean) on an array of strings: the empty string is falsy
RECURSIVE filterNonEmpty(_)
filterNonEmpty(parts) ==
    IF parts = <<>> THEN <<>>
    ELSE (IF Head(parts) # <<>> THEN <<Head(parts)>> ELSE <<>>) \o filterNonEmpty(Tail(parts))

\* item[key] of a plain object
getAttr(v, key) ==
    IF v.t = "object" /\ \E i \in DOMAIN v.attrs : v.attrs[i][1] = key
    THEN v.attrs[CHOOSE i \in DOMAIN v.attrs : v.attrs[i][1] = key][2]
    ELSE JsUndefined

RECURSIVE digits(_)
digits(n) == IF n < 10 THEN <<DigitChars[n + 1]>> ELSE digits(n \div 10) \o <<DigitChars[(n % 10) + 1]>>

FunctionText ==
    <<"f","u","n","c","t","i","o","n"," ","O","b","j","e","c","t","(",")"," ",
      "{"," ","[","n","a","t","i","v","e"," ","c","o","d","e","]"," ","}">>
ObjectText == <<"[","o","b","j","e","c","t"," ","O","b","j","e","c","t","]">>

\* String(v) and Array.prototype.join
RECURSIVE String(_), join(_, _)
String(v) ==
    CASE v.t = "string" -> v.s
      [] v.t = "null" -> <<"n","u","l","l">>
      [] v.t = "undefined" -> <<"u","n","d","e","f","i","n","e","d">>
      [] v.t = "array" -> join(v.items, <<",">>)
      [] v.t = "number" -> digits(v.n)
      [] v.t = "function" -> FunctionText
      [] OTHER -> ObjectText
join(items, sep) ==
    IF items = <<>> THEN <<>>
    ELSE LET h == IF isNullish(Head(items)) THEN <<>> ELSE String(Head(items))
         IN IF Len(items) = 1 THEN h ELSE h \o sep \o join(Tail(items), sep)

----------------------------------------------------------------------------
(* Helpers of sync.js *)

\* new Set(arr) spread back to an array: first occurrences, in order
RECURSIVE dedupe(_, _)
dedupe(arr, seen) ==
    IF arr = <<>> THEN <<>>
    ELSE IF Head(arr) \in seen THEN dedupe(Tail(arr), seen)
    ELSE <<Head(arr)>> \o dedupe(Tail(arr), seen \cup {Head(arr)})

\* uniq without the Set: falsy entries dropped, duplicates kept
uniqKeepingDuplicates(arr) == filterBoolean(arr)

uniq(arr) == dedupe(filterBoolean(arr), {})

\* raw.match(/([UW][A-Z0-9]{2,})/): leftmost match, extended greedily
matchSlackId(raw) ==
    LET starts == { i \in DOMAIN raw :
                      /\ IdStart(raw[i])
                      /\ i + 2 <= Len(raw)
                      /\ IdChar(raw[i + 1])
                      /\ IdChar(raw[i + 2]) }
    IN IF starts = {} THEN JsNull
       ELSE LET i == CHOOSE a \in starts : \A b \in starts : a <= b
                j == CHOOSE e \in (i + 2)..Len(raw) :
                         /\ \A k \in (i + 1)..e : IdChar(raw[k])
                         /\ (e = Len(raw) \/ ~IdChar(raw[e + 1]))
            IN JsStr(SubSeq(raw, i, j))

\* the normalizer that looks at the first element of a list only
normalizeSlackIdOfFirst(value) ==
    IF isNullish(value) THEN JsNull
    ELSE IF value.t = "array"
         THEN IF value.items = <<>> \/ isNullish(value.items[1]) THEN JsNull
              ELSE matchSlackId(String(value.items[1]))
    ELSE matchSlackId(String(value))

normalizeSlackId(value) ==
    IF isNullish(value) THEN JsNull
    ELSE matchSlackId(IF value.t = "array" THEN join(value.items, <<" ">>) ELSE String(value))

\* the normalizer without the case fold
normalizeNameKeepingCase(value) ==
    IF isNullish(value) THEN JsNull ELSE JsStr(trim(String(value)))

normalizeName(value) ==
    IF isNullish(value) THEN JsNull
    ELSE JsStr(toLowerCase(trim(String(value))))

\* pushString without the trim of each piece
pushStringUntrimmed(s) ==
    IF ~truthy(s) THEN <<>> ELSE filterNonEmpty(split(String(s)))

pushString(s) ==
    IF ~truthy(s) THEN <<>>
    ELSE filterNonEmpty([i \in DOMAIN split(String(s)) |-> trim(split(String(s))[i])])

\* the first of "Name", "name", "value", "label" that holds a string
commonKeys == << <<"N","a","m","e">>, <<"n","a","m","e">>, <<"v","a","l","u","e">>,
                 <<"l","a","b","e","l">> >>

\* handleItem that ignores everything but strings
handleItemStringsOnly(item) ==
    IF item.t = "string" THEN pushString(item) ELSE <<>>

handleItem(item) ==
    IF isNullish(item) THEN <<>>
    ELSE IF item.t = "string" THEN pushString(item)
    ELSE IF item.t \in {"object", "array", "prototype"} THEN
        LET id == getAttr(item, <<"i","d">>)
            name == getAttr(item, <<"n","a","m","e">>)
            hits == { k \in DOMAIN commonKeys : getAttr(item, commonKeys[k]).t = "string" }
        IN IF id.t = "string" /\ startsWith(id.s, <<"r","e","c">>) THEN <<id.s>>
           ELSE IF name.t = "string" THEN pushString(name)
           ELSE IF hits # {}
                THEN pushString(getAttr(item, commonKeys[CHOOSE k \in hits : \A m \in hits : k <= m]))
           ELSE <<>>
    ELSE pushString(JsStr(String(item)))

RECURSIVE handleItems(_)
handleItems(items) ==
    IF items = <<>> THEN <<>> ELSE handleItem(Head(items)) \o handleItems(Tail(items))

explodeHubCoordinators(raw) ==
    IF isNullish(raw) THEN <<>>
    ELSE IF raw.t = "array" THEN handleItems(raw.items)
    ELSE handleItem(raw)

----------------------------------------------------------------------------
(* Object literals used as maps (slackIdByCoordinatorRecordId, ...Name) *)

sConstructor == <<"c","o","n","s","t","r","u","c","t","o","r">>
sProto == <<"_","_","p","r","o","t","o","_","_">>

\* obj[key] on an object created by {}: own properties first, then what
\* Object.prototype provides; own values are the Slack ids stored by main
propGet(obj, key) ==
    IF key \in DOMAIN obj THEN JsStr(obj[key])
    ELSE IF key = sConstructor THEN ObjectConstructor
    ELSE IF key = sProto THEN ObjectPrototype
    ELSE JsUndefined

\* an assignment that keeps the value a key already has
propSetIfAbsent(obj, key, value) ==
    IF key = sProto \/ key \in DOMAIN obj THEN obj
    ELSE [k \in DOMAIN obj \cup {key} |-> IF k = key THEN value ELSE obj[k]]

\* obj[key] = value for a string value: the __proto__ setter ignores a primitive
propSet(obj, key, value) ==
    IF key = sProto THEN obj
    ELSE [k \in DOMAIN obj \cup {key} |-> IF k = key THEN value ELSE obj[k]]

emptyObject == [k \in {} |-> <<>>]

----------------------------------------------------------------------------
(* main(): the coordinator index *)

\* the loop with the invalid counter forgotten
RECURSIVE indexCoordinatorsUncounted(_, _)
indexCoordinatorsUncounted(cs, acc) ==
    IF cs = <<>> THEN acc
    ELSE LET c == Head(cs)
             slackId == normalizeSlackId(c.slack)
             name == normalizeName(c.name)
         IN IF ~truthy(slackId)
            THEN indexCoordinatorsUncounted(Tail(cs), acc)
            ELSE indexCoordinatorsUncounted(Tail(cs),
                    [acc EXCEPT !.byId = propSet(@, c.id, slackId.s),
                                !.byName = IF truthy(name)
                                           THEN propSet(@, name.s, slackId.s) ELSE @])

\* the loop over coordinators, from an accumulator acc
RECURSIVE indexCoordinators(_, _)
indexCoordinators(cs, acc) ==
    IF cs = <<>> THEN acc
    ELSE LET c == Head(cs)
             slackId == normalizeSlackId(c.slack)
             name == normalizeName(c.name)
         IN IF ~truthy(slackId)
            THEN indexCoordinators(Tail(cs), [acc EXCEPT !.invalid = @ + 1])
            ELSE indexCoordinators(Tail(cs),
                    [acc EXCEPT !.byId = propSet(@, c.id, slackId.s),
                                !.byName = IF truthy(name)
                                           THEN propSet(@, name.s, slackId.s)
                                           ELSE @])

buildIndex(cs) == indexCoordinators(cs, [byId |-> emptyObject, byName |-> emptyObject, invalid |-> 0])

----------------------------------------------------------------------------
(* main(): one hub *)

sRec == <<"r","e","c">>

\* "rec" followed by one or more letters or digits, and nothing else
isRecordIdPattern(t) ==
    /\ startsWith(t, sRec)
    /\ Len(t) > Len(sRec)
    /\ \A k \in (Len(sRec) + 1)..Len(t) :
           t[k] \in Range(UpperChars) \cup Range(LowerChars) \cup Range(DigitChars)

\* the callback with tokens classified by the whole record-id pattern
resolveTokenByPattern(t, byId, byName) ==
    IF t = <<>> THEN JsNull
    ELSE IF isRecordIdPattern(t) THEN propGet(byId, t)
    ELSE propGet(byName, String(normalizeName(JsStr(t))))

\* the callback of tokens.map
resolveToken(t, byId, byName) ==
    IF t = <<>> THEN JsNull
    ELSE IF startsWith(t, sRec) THEN propGet(byId, t)
    ELSE propGet(byName, String(normalizeName(JsStr(t))))

mapTokens(tokens, byId, byName) ==
    [i \in DOMAIN tokens |-> resolveToken(tokens[i], byId, byName)]

\* tokens, mapped and slackUserIds of the loop body for hub h
resolveHub(h, byId, byName) ==
    LET tokens == explodeHubCoordinators(h.coordinators)
        mapped == mapTokens(tokens, byId, byName)
    IN [tokens |-> tokens, mapped |-> mapped, slackUserIds |-> uniq(mapped)]

noLocals == [tokens |-> <<>>, mapped |-> <<>>, slackUserIds |-> <<>>]

\* the body of slackCall's request for hub i
updateRequest(i, h, slackUserIds) ==
    [hub |-> i, usergroup |-> h.groupId, users |-> join(slackUserIds, <<",">>),
     members |-> slackUserIds]

\* the hub loop with slackCall not awaited: every update request goes out at once
RECURSIVE sweepWithoutAwait(_, _, _, _, _)
sweepWithoutAwait(i, hs, byId, byName, st) ==
    IF i > Len(hs)
    THEN [st EXCEPT !.pc = IF \E k \in DOMAIN st.state : st.state[k] = "Calling"
                           THEN "update" ELSE "done"]
    ELSE IF ~truthy(hs[i].groupId)
    THEN sweepWithoutAwait(i + 1, hs, byId, byName, [st EXCEPT !.state[i] = "SkippedNoGroupId"])
    ELSE LET loc == resolveHub(hs[i], byId, byName)
         IN IF Len(loc.slackUserIds) = 0
            THEN sweepWithoutAwait(i + 1, hs, byId, byName,
                       [st EXCEPT !.state[i] = "SkippedEmptyMembership", !.locals[i] = loc])
            ELSE sweepWithoutAwait(i + 1, hs, byId, byName,
                       [st EXCEPT !.idx = i, !.state[i] = "Calling", !.locals[i] = loc,
                                  !.calls = Append(@, updateRequest(i, hs[i], loc.slackUserIds))])

\* The hub loop from hub i up to its next await: hubs without a group id or
\* with an empty membership are skipped in the same step; the first other hub
\* gets its update request and main() waits for the response.
RECURSIVE sweep(_, _, _, _, _)
sweep(i, hs, byId, byName, st) ==
    IF i > Len(hs) THEN [st EXCEPT !.pc = "done", !.idx = i]
    ELSE IF ~truthy(hs[i].groupId)
    THEN sweep(i + 1, hs, byId, byName, [st EXCEPT !.state[i] = "SkippedNoGroupId"])
    ELSE LET loc == resolveHub(hs[i], byId, byName)
         IN IF Len(loc.slackUserIds) = 0
            THEN sweep(i + 1, hs, byId, byName,
                       [st EXCEPT !.state[i] = "SkippedEmptyMembership", !.locals[i] = loc])
            ELSE [st EXCEPT !.pc = "update", !.idx = i, !.state[i] = "Calling",
                            !.locals[i] = loc,
                            !.calls = Append(@, updateRequest(i, hs[i], loc.slackUserIds))]

\* slackCall returned: the loop goes on with the next hub
updateReturned(hs, byId, byName, st) ==
    sweep(st.idx + 1, hs, byId, byName, [st EXCEPT !.state[st.idx] = "Updated"])

\* slackCall threw and nothing catches it: the error leaves the loop
updateRethrown(hs, byId, byName, st) ==
    [st EXCEPT !.state[st.idx] = "Failed", !.pc = "failed", !.thrown = "Slack API failed"]

\* slackCall threw and the same hub is tried again
updateRetried(hs, byId, byName, st) ==
    sweep(st.idx, hs, byId, byName, st)

\* slackCall threw: the catch block logs and continues with the next hub
updateThrew(hs, byId, byName, st) ==
    sweep(st.idx + 1, hs, byId, byName, [st EXCEPT !.state[st.idx] = "Failed"])

----------------------------------------------------------------------------
(* Inputs: the tables the listing service may hold *)

sSuzi == <<"S","u","z","i">>
sAnna == <<"A","n","n","a">>
sRec1 == <<"r","e","c","1">>
sRec2 == <<"r","e","c","2">>
sRec3 == <<"r","e","c","3">>
sRec4 == <<"r","e","c","4">>
sRec5 == <<"r","e","c","5">>
sRecB == <<"r","e","c"," ","b">>
sU111 == <<"U","1","1","1">>
sU222 == <<"U","2","2","2">>
sU333 == <<"U","3","3","3">>
sU555 == <<"U","5","5","5">>
sGroupA == <<"S","0","A">>
sGroupB == <<"S","0","B">>

Coordinator(id, slack, name) == [id |-> id, slack |-> slack, name |-> name]
cSuzi == Coordinator(sRec1, JsStr(<<"<","@">> \o sU111 \o <<">">>), JsStr(sSuzi))
cAnna == Coordinator(sRec2, JsStr(sU222), JsStr(sAnna))
cSuzi2 == Coordinator(sRec3, JsStr(sU333), JsStr(<<" ","S","U","Z","I"," ">>))
cNoId == Coordinator(sRec4, JsNull, JsStr(sAnna))
cRecB == Coordinator(sRec5, JsArr(<<JsStr(sU555)>>), JsStr(sRecB))
cProto == Coordinator(sRec3, JsStr(sU333), JsStr(sProto))
cNoName == Coordinator(sRec4, JsStr(<<"W","0","A","B">>), JsStr(<<" "," ">>))

CoordinatorTables ==
    { <<>>, <<cSuzi, cAnna>>, <<cSuzi, cSuzi2>>, <<cSuzi2, cSuzi>>, <<cNoId, cAnna>>,
      <<cRecB, cSuzi>>, <<cSuzi, cNoId, cAnna>>, <<cProto, cAnna>>,
      <<cNoName, cSuzi>> }

Hub(groupId, raw) == [groupId |-> groupId, coordinators |-> raw]
HubPool ==
    { Hub(JsStr(sGroupA), JsStr(sSuzi \o <<",", " ">> \o sAnna)),
      Hub(JsStr(sGroupB), JsArr(<<JsStr(sRec1), JsStr(sRec2)>>)),
      Hub(JsStr(sGroupA), JsArr(<<JsStr(sAnna \o <<";">> \o sRec1), JsStr(sSuzi)>>)),
      Hub(JsStr(sGroupB), JsStr(sConstructor)),
      Hub(JsStr(sGroupA), JsStr(sRecB \o <<"\n">> \o <<" ","S","U","Z","I"," ">>)),
      Hub(JsStr(sGroupB), JsStr(sProto \o <<"|">> \o sAnna)),
      Hub(JsStr(sGroupB), JsNull),
      Hub(JsUndefined, JsStr(sSuzi)) }

\* most hubs in the Hubs table
MaxHubs == 2

\* records per page of a listing response (sync.js asks for 100)
PageLen == 1

HubTables == UNION { [1..n -> HubPool] : n \in 0..MaxHubs }

Secrets == {"AIRTABLE_BASE_ID", "AIRTABLE_TOKEN", "SLACK_BOT_TOKEN"}

----------------------------------------------------------------------------
(* The listing service and airtableList *)

\* the response to a request for tbl with cursor off (0: no cursor)
listPage(tbl, off) ==
    LET first == IF off = 0 THEN 1 ELSE off
        last == IF first + PageLen - 1 < Len(tbl) THEN first + PageLen - 1 ELSE Len(tbl)
    IN [records |-> SubSeq(tbl, first, last),
        offset |-> IF last < Len(tbl) THEN last + 1 ELSE 0]

listRequest(tbl, off) == [table |-> tbl, offset |-> off]

servedTable == IF table = "Coordinators" THEN srvCoordinators ELSE srvHubs

----------------------------------------------------------------------------
(* main() *)

MainIdle ==
    /\ table = ""
    /\ srvCoordinators = <<>>
    /\ srvHubs = <<>>
    /\ offset = 0
    /\ records = <<>>
    /\ listRequests = <<>>
    /\ coordinators = <<>>
    /\ slackIdByCoordinatorRecordId = emptyObject
    /\ slackIdByCoordinatorName = emptyObject
    /\ invalidSlackIdCount = 0
    /\ hubs = <<>>
    /\ hubIdx = 0
    /\ hubLocals = <<>>
    /\ hubState = <<>>
    /\ calls = <<>>
    /\ inFlight = 0
    /\ exitCode = -1
    /\ thrown = ""

InitMain ==
    /\ env \in [Secrets -> BOOLEAN]
    /\ pc = "start"
    /\ MainIdle

FnOff ==
    /\ fnPc = "off"
    /\ fnName = ""
    /\ fnArg = JsNull
    /\ fnRes = JsNull

Init == InitMain /\ FnOff

\* a rejection handler that logs and forgets process.exit(1)
AbortWithoutExit(err) ==
    /\ pc' = "failed"
    /\ exitCode' = 0
    /\ thrown' = err

\* the rejection handler of main(): console.error, process.exit(1)
Abort(err) ==
    /\ pc' = "failed"
    /\ exitCode' = 1
    /\ thrown' = err

\* a start-up test that forgets SLACK_BOT_TOKEN
missingAirtableSecret == \E s \in {"AIRTABLE_BASE_ID", "AIRTABLE_TOKEN"} : ~env[s]

\* !AIRTABLE_BASE_ID || !AIRTABLE_TOKEN || !SLACK_BOT_TOKEN
missingSecret == \E s \in Secrets : ~env[s]

\* main() up to its first await: a missing secret throws, else the first
\* Coordinators request goes out
Start ==
    /\ pc = "start"
    /\ IF missingSecret
       THEN /\ Abort("Missing required env vars")
            /\ UNCHANGED <<table, srvCoordinators, srvHubs, offset, listRequests>>
       ELSE /\ \E ct \in CoordinatorTables, ht \in HubTables :
                  /\ srvCoordinators' = ct
                  /\ srvHubs' = ht
            /\ table' = "Coordinators"
            /\ offset' = 0
            /\ listRequests' = <<listRequest("Coordinators", 0)>>
            /\ pc' = "list"
            /\ UNCHANGED <<exitCode, thrown>>
    /\ UNCHANGED <<env, records, coordinators, slackIdByCoordinatorRecordId,
                   slackIdByCoordinatorName, invalidSlackIdCount, hubs, hubIdx, hubLocals,
                   hubState, calls, inFlight, fnVars>>

\* airtableList with the failure of a Hubs request taken as the end of the
\* table: the hub loop runs over the records gathered so far
ListFailedIgnored ==
    /\ pc = "list"
    /\ IF table = "Hubs"
       THEN /\ hubs' = records
            /\ LET st == sweep(1, records, slackIdByCoordinatorRecordId, slackIdByCoordinatorName,
                               [pc |-> pc, idx |-> hubIdx,
                                state |-> [i \in 1..Len(records) |-> "Pending"],
                                locals |-> [i \in 1..Len(records) |-> noLocals],
                                calls |-> calls, thrown |-> "Airtable list failed"])
               IN /\ pc' = st.pc
                  /\ hubIdx' = st.idx
                  /\ hubState' = st.state
                  /\ hubLocals' = st.locals
                  /\ calls' = st.calls
                  /\ inFlight' = IF st.pc = "update" THEN 1 ELSE 0
                  /\ exitCode' = IF st.pc = "done" THEN 0 ELSE exitCode
                  /\ thrown' = st.thrown
       ELSE /\ Abort("Airtable list failed")
            /\ UNCHANGED <<hubs, hubIdx, hubLocals, hubState, calls, inFlight>>
    /\ UNCHANGED <<env, table, srvCoordinators, srvHubs, offset, records, listRequests,
                   coordinators, slackIdByCoordinatorRecordId, slackIdByCoordinatorName,
                   invalidSlackIdCount, fnVars>>

\* airtableList: res.ok is false, or fetch / res.json rejects
ListFailed ==
    /\ pc = "list"
    /\ Abort("Airtable list failed")
    /\ UNCHANGED <<env, table, srvCoordinators, srvHubs, offset, records, listRequests,
                   coordinators, slackIdByCoordinatorRecordId, slackIdByCoordinatorName,
                   invalidSlackIdCount, hubs, hubIdx, hubLocals, hubState, calls, inFlight,
                   fnVars>>

\* airtableList forgetting the records of a page that has a cursor
ListMoreWithoutPush ==
    /\ pc = "list"
    /\ LET data == listPage(servedTable, offset)
       IN /\ data.offset # 0
          /\ offset' = data.offset
          /\ listRequests' = Append(listRequests, listRequest(table, data.offset))
    /\ UNCHANGED <<env, pc, table, srvCoordinators, srvHubs, records, coordinators,
                   slackIdByCoordinatorRecordId, slackIdByCoordinatorName,
                   invalidSlackIdCount, hubs, hubIdx, hubLocals, hubState, calls, inFlight,
                   exitCode, thrown, fnVars>>

\* airtableList: a page with a cursor; the next request carries it
ListMore ==
    /\ pc = "list"
    /\ LET data == listPage(servedTable, offset)
       IN /\ data.offset # 0
          /\ records' = records \o data.records
          /\ offset' = data.offset
          /\ listRequests' = Append(listRequests, listRequest(table, data.offset))
    /\ UNCHANGED <<env, pc, table, srvCoordinators, srvHubs, coordinators,
                   slackIdByCoordinatorRecordId, slackIdByCoordinatorName,
                   invalidSlackIdCount, hubs, hubIdx, hubLocals, hubState, calls, inFlight,
                   exitCode, thrown, fnVars>>

\* the last Coordinators page: airtableList returns, main() builds both
\* lookups and sends the first Hubs request
CoordinatorsLoaded ==
    /\ pc = "list"
    /\ table = "Coordinators"
    /\ LET data == listPage(servedTable, offset)
           all == records \o data.records
           index == buildIndex(all)
       IN /\ data.offset = 0
          /\ coordinators' = all
          /\ slackIdByCoordinatorRecordId' = index.byId
          /\ slackIdByCoordinatorName' = index.byName
          /\ invalidSlackIdCount' = index.invalid
    /\ table' = "Hubs"
    /\ offset' = 0
    /\ records' = <<>>
    /\ listRequests' = Append(listRequests, listRequest("Hubs", 0))
    /\ UNCHANGED <<env, pc, srvCoordinators, srvHubs, hubs, hubIdx, hubLocals, hubState,
                   calls, inFlight, exitCode, thrown, fnVars>>

\* the state of the hub loop as one record, and its effect on the variables;
\* an error that leaves the loop reaches main()'s rejection handler
loopState ==
    [pc |-> pc, idx |-> hubIdx, state |-> hubState, locals |-> hubLocals, calls |-> calls,
     thrown |-> thrown]

LoopTo(st) ==
    /\ pc' = st.pc
    /\ hubIdx' = st.idx
    /\ hubState' = st.state
    /\ hubLocals' = st.locals
    /\ calls' = st.calls
    /\ inFlight' = IF st.pc = "update" THEN 1 ELSE 0
    /\ thrown' = st.thrown
    /\ exitCode' = IF st.pc = "done" THEN 0 ELSE IF st.pc = "failed" THEN 1 ELSE exitCode

\* the last Hubs page: airtableList returns and the hub loop runs to its
\* first update call, or to the end
HubsLoaded ==
    /\ pc = "list"
    /\ table = "Hubs"
    /\ LET data == listPage(servedTable, offset)
           all == records \o data.records
       IN /\ data.offset = 0
          /\ hubs' = all
          /\ records' = all
          /\ LoopTo(sweep(1, all, slackIdByCoordinatorRecordId, slackIdByCoordinatorName,
                          [loopState EXCEPT !.state = [i \in 1..Len(all) |-> "Pending"],
                                            !.locals = [i \in 1..Len(all) |-> noLocals]]))
    /\ UNCHANGED <<env, table, srvCoordinators, srvHubs, offset, listRequests, coordinators,
                   slackIdByCoordinatorRecordId, slackIdByCoordinatorName,
                   invalidSlackIdCount, fnVars>>

\* slackCall: the response says ok; the loop goes on
UpdateOk ==
    /\ pc = "update"
    /\ LoopTo(updateReturned(hubs, slackIdByCoordinatorRecordId, slackIdByCoordinatorName,
                             loopState))
    /\ UNCHANGED <<env, table, srvCoordinators, srvHubs, offset, records, listRequests,
                   coordinators, slackIdByCoordinatorRecordId, slackIdByCoordinatorName,
                   invalidSlackIdCount, hubs, fnVars>>

\* slackCall: the response is not ok, or fetch / res.json rejects
UpdateFailed ==
    /\ pc = "update"
    /\ LoopTo(updateThrew(hubs, slackIdByCoordinatorRecordId, slackIdByCoordinatorName,
                          loopState))
    /\ UNCHANGED <<env, table, srvCoordinators, srvHubs, offset, records, listRequests,
                   coordinators, slackIdByCoordinatorRecordId, slackIdByCoordinatorName,
                   invalidSlackIdCount, hubs, fnVars>>

Next ==
    \/ Start
    \/ ListFailed
    \/ ListMore
    \/ CoordinatorsLoaded
    \/ HubsLoaded
    \/ UpdateOk
    \/ UpdateFailed

Spec == Init /\ [][Next]_vars

\* every fetch that airtableList awaits settles: the response is handled
SpecLive == Spec /\ WF_vars(ListMore \/ ListFailed \/ CoordinatorsLoaded \/ HubsLoaded)

----------------------------------------------------------------------------
(* Vocabulary of the properties *)

TerminalStates == {"Updated", "SkippedNoGroupId", "SkippedEmptyMembership", "Failed"}

\* the update requests issued for hub i
callsFor(i) == { k \in DOMAIN calls : calls[k].hub = i }

\* hubs whose loop iteration has computed a membership
resolvedHubs == { i \in DOMAIN hubState : hubState[i] \notin {"Pending", "SkippedNoGroupId"} }

\* the Slack ids the index builder stored in either lookup
indexIds ==
    { JsStr(slackIdByCoordinatorRecordId[k]) : k \in DOMAIN slackIdByCoordinatorRecordId }
    \cup { JsStr(slackIdByCoordinatorName[k]) : k \in DOMAIN slackIdByCoordinatorName }

\* a string matching ^[UW][A-Z0-9]{2,}$
isSlackId(v) ==
    /\ v.t = "string"
    /\ Len(v.s) >= 3
    /\ IdStart(v.s[1])
    /\ \A k \in 2..Len(v.s) : IdChar(v.s[k])

hasGroupId(i) == hubs[i].groupId.t = "string" /\ hubs[i].groupId.s # <<>>

\* position of the first token of hub i that resolves to v
firstToken(i, v) ==
    CHOOSE k \in DOMAIN hubLocals[i].mapped :
        /\ hubLocals[i].mapped[k] = v
        /\ \A m \in 1..(k - 1) : hubLocals[i].mapped[m] # v

----------------------------------------------------------------------------
(* C1: the update call never carries an empty member list, and a hub whose
   coordinators field resolves to no valid Slack id gets no update call. *)
C1_NoCallWithoutValidIds ==
    /\ \A k \in DOMAIN calls : calls[k].members # <<>> /\ calls[k].users # <<>>
    /\ \A i \in resolvedHubs :
           (\A k \in DOMAIN hubLocals[i].slackUserIds : ~isSlackId(hubLocals[i].slackUserIds[k]))
           => callsFor(i) = {}

(* C2: a failed update call of hub a is absorbed: the run does not abort, every
   later hub is processed in table order, and each later hub with a group id
   and a non-empty membership gets its update call. *)
C2_FailureIsAbsorbed ==
    \A a \in DOMAIN hubState :
        hubState[a] = "Failed" =>
            /\ pc \in {"update", "done"}
            /\ exitCode # 1
            /\ hubIdx > a
            /\ \A b \in (a + 1)..Len(hubs) :
                   /\ b < hubIdx => hubState[b] \in TerminalStates
                   /\ (b <= hubIdx /\ b <= Len(hubs) /\ hasGroupId(b)
                         /\ hubLocals[b].slackUserIds # <<>>)
                      => Cardinality(callsFor(b)) = 1
                   /\ pc = "done" => hubState[b] \in TerminalStates

\* hub a failed and a later hub b was updated
C2_Witness ==
    \E a, b \in DOMAIN hubState :
        a < b /\ hubState[a] = "Failed" /\ hubState[b] = "Updated" /\ pc = "done"

(* C3: an id is in a hub's membership iff one of its tokens resolves to it, and
   every id of a membership or of an update call is a value stored in
   slackIdByCoordinatorRecordId or slackIdByCoordinatorName. *)
C3_MembershipFromIndex ==
    /\ \A i \in resolvedHubs :
           LET loc == hubLocals[i]
           IN /\ \A k \in DOMAIN loc.mapped :
                     truthy(loc.mapped[k]) => loc.mapped[k] \in Range(loc.slackUserIds)
              /\ \A v \in Range(loc.slackUserIds) : v \in Range(loc.mapped)
              /\ \A v \in Range(loc.slackUserIds) : v \in indexIds
    /\ \A k \in DOMAIN calls : Range(calls[k].members) \subseteq indexIds

(* C4: the membership of a hub holds every resolved id once, ordered by the
   first token that resolves to it; unresolved tokens are dropped; with
   Suzi = U111 and Anna = U222, "Suzi, Anna" gives [U111, U222]. *)
C4_FirstOccurrenceOrder ==
    \A i \in resolvedHubs :
        LET loc == hubLocals[i]
            m == loc.slackUserIds
        IN /\ loc.tokens = explodeHubCoordinators(hubs[i].coordinators)
           /\ DOMAIN loc.mapped = DOMAIN loc.tokens
           /\ Range(m) = { loc.mapped[k] : k \in { j \in DOMAIN loc.mapped : truthy(loc.mapped[j]) } }
           /\ \A a, b \in DOMAIN m : a < b => m[a] # m[b] /\ firstToken(i, m[a]) < firstToken(i, m[b])
           /\ (coordinators = <<cSuzi, cAnna>>
                 /\ hubs[i].coordinators = JsStr(sSuzi \o <<",", " ">> \o sAnna))
              => m = <<JsStr(sU111), JsStr(sU222)>>

\* an id reached by reference and by name is kept once, after an earlier id
C4_Witness ==
    \E i \in resolvedHubs :
        /\ Len(hubLocals[i].slackUserIds) = 2
        /\ \E j, k \in DOMAIN hubLocals[i].mapped :
               /\ 1 < j /\ j < k
               /\ hubLocals[i].mapped[j] = hubLocals[i].mapped[k]
               /\ truthy(hubLocals[i].mapped[j])
               /\ startsWith(hubLocals[i].tokens[j], sRec)
               /\ ~startsWith(hubLocals[i].tokens[k], sRec)

(* C5: exit code 0 whenever both tables load and the sweep completes, however
   many hubs were skipped or failed; a non-zero exit code exactly when a
   secret is missing or a table listing fails. *)
C5_ExitContract ==
    /\ pc = "done" <=> exitCode = 0
    /\ pc = "done" => /\ coordinators = srvCoordinators
                      /\ hubs = srvHubs
                      /\ \A i \in DOMAIN hubs : hubState[i] \in TerminalStates
    /\ exitCode \in {-1, 0, 1}
    /\ exitCode = 1 <=> thrown \in {"Missing required env vars", "Airtable list failed"}
    /\ thrown = "Missing required env vars" => \E s \in Secrets : ~env[s]
    /\ (\E i \in DOMAIN hubState : hubState[i] \in {"Failed", "Calling"}) => exitCode # 1

\* a completed run with a failed hub and a skipped hub that exits with 0
C5_Witness ==
    /\ pc = "done"
    /\ exitCode = 0
    /\ \E i, j \in DOMAIN hubState :
           hubState[i] = "Failed" /\ hubState[j] \in {"SkippedNoGroupId", "SkippedEmptyMembership"}

(* C6: every hub ends in one of the four terminal states and gets at most one
   update call: exactly one, with its group id and its whole membership, iff it
   has a group id and a non-empty membership. *)
C6_OneOutcomeOneCall ==
    /\ pc = "done" => \A i \in DOMAIN hubs : hubState[i] \in TerminalStates
    /\ \A i \in DOMAIN hubState :
           LET eligible == hasGroupId(i) /\ hubLocals[i].slackUserIds # <<>>
           IN /\ Cardinality(callsFor(i)) <= 1
              /\ hubState[i] # "Pending" => (callsFor(i) # {} <=> eligible)
              /\ hubState[i] = "SkippedNoGroupId" <=> (i < hubIdx \/ pc = "done") /\ ~hasGroupId(i)
              /\ hubState[i] = "SkippedEmptyMembership"
                    => hasGroupId(i) /\ hubLocals[i].slackUserIds = <<>>
              /\ hubState[i] \in {"Updated", "Failed", "Calling"} => eligible
              /\ \A k \in callsFor(i) :
                     /\ calls[k].usergroup = hubs[i].groupId
                     /\ calls[k].members = hubLocals[i].slackUserIds
                     /\ calls[k].members = uniq(mapTokens(explodeHubCoordinators(hubs[i].coordinators),
                                    slackIdByCoordinatorRecordId, slackIdByCoordinatorName))

\* a finished run with one hub in each of three terminal states, one call each
\* for the updated and the failed hub
C6_Witness ==
    /\ pc = "done"
    /\ \E i, j \in DOMAIN hubState :
           /\ hubState[i] = "Updated"
           /\ hubState[j] = "Failed"
           /\ Cardinality(callsFor(i)) = 1
           /\ Cardinality(callsFor(j)) = 1
           /\ Len(calls) = 2

(* C8 as stated: a token is a reference token iff it matches the record-id
   pattern ("rec" followed by alphanumerics) and a name token otherwise; a
   reference token is looked up in slackIdByCoordinatorRecordId only, a name
   token in slackIdByCoordinatorName under its normalized name, so a name
   token equal to an indexed coordinator's name up to case and surrounding
   whitespace resolves to the id registered for that name. *)
C8_ClassifiedByPattern ==
    \A i \in resolvedHubs :
        \A k \in DOMAIN hubLocals[i].tokens :
            LET t == hubLocals[i].tokens[k]
                canonical == toLowerCase(trim(t))
            IN IF isRecordIdPattern(t)
               THEN t \in DOMAIN slackIdByCoordinatorRecordId
                       => hubLocals[i].mapped[k] = JsStr(slackIdByCoordinatorRecordId[t])
               ELSE canonical \in DOMAIN slackIdByCoordinatorName
                       => hubLocals[i].mapped[k] = JsStr(slackIdByCoordinatorName[canonical])

\* the coordinators whose Slack id field holds an id
indexed == { n \in DOMAIN coordinators : truthy(normalizeSlackId(coordinators[n].slack)) }

(* C8 as amended: a token is a reference token iff it starts with "rec" and a
   name token otherwise; a reference token is looked up in
   slackIdByCoordinatorRecordId only (a token that is no key there resolves to
   nothing, also when it is the name of a coordinator), a name token in
   slackIdByCoordinatorName under its normalized name, so a name token equal
   to an indexed coordinator's name up to case and surrounding whitespace
   resolves to the id registered for that name. *)
C8_ClassifiedByRecPrefix ==
    \A i \in resolvedHubs :
        \A k \in DOMAIN hubLocals[i].tokens :
            LET t == hubLocals[i].tokens[k]
                canonical == toLowerCase(trim(t))
                r == hubLocals[i].mapped[k]
            IN IF startsWith(t, sRec)
               THEN IF t \in DOMAIN slackIdByCoordinatorRecordId
                    THEN r = JsStr(slackIdByCoordinatorRecordId[t])
                    ELSE ~truthy(r)
               ELSE /\ canonical \in DOMAIN slackIdByCoordinatorName
                          => r = JsStr(slackIdByCoordinatorName[canonical])
                    /\ \A n \in indexed :
                          (coordinators[n].name.t = "string"
                             /\ toLowerCase(trim(coordinators[n].name.s)) = canonical
                             /\ canonical # sProto)
                          => /\ canonical \in DOMAIN slackIdByCoordinatorName
                             /\ r = JsStr(slackIdByCoordinatorName[canonical])
                             /\ \E m \in indexed :
                                    /\ toLowerCase(trim(coordinators[m].name.s)) = canonical
                                    /\ r = normalizeSlackId(coordinators[m].slack)

\* a token that starts with "rec", is no record id and is the name of an
\* indexed coordinator resolves to nothing, next to a name token that resolves
C8_Witness ==
    \E i \in resolvedHubs :
        \E j, k \in DOMAIN hubLocals[i].tokens :
            /\ startsWith(hubLocals[i].tokens[j], sRec)
            /\ ~isRecordIdPattern(hubLocals[i].tokens[j])
            /\ hubLocals[i].tokens[j] \in DOMAIN slackIdByCoordinatorName
            /\ ~truthy(hubLocals[i].mapped[j])
            /\ ~startsWith(hubLocals[i].tokens[k], sRec)
            /\ hubLocals[i].tokens[k] # toLowerCase(hubLocals[i].tokens[k])
            /\ truthy(hubLocals[i].mapped[k])

(* C10: when a request of either table listing fails, the run aborts at once:
   no update call is issued in that run, before or after the failure, and no
   hub is processed. *)
C10_ListFailureAborts ==
    /\ pc = "list" => calls = <<>> /\ hubState = <<>> /\ inFlight = 0
    /\ thrown = "Airtable list failed"
          => /\ pc = "failed"
             /\ exitCode = 1
             /\ calls = <<>>
             /\ hubState = <<>>
             /\ hubs = <<>>
             /\ inFlight = 0

\* the Hubs listing failed on a later page, after hubs were received
C10_Witness ==
    /\ thrown = "Airtable list failed"
    /\ table = "Hubs"
    /\ offset # 0
    /\ records # <<>>
    /\ coordinators # <<>>

(* C11: when one of the three required secrets is absent, main() fails before
   any network call: no table-listing request and no update call is issued. *)
C11_NoRequestWithoutSecrets ==
    /\ (\E s \in Secrets : ~env[s])
          => /\ listRequests = <<>>
             /\ calls = <<>>
             /\ pc \in {"start", "failed"}
             /\ pc = "failed" => thrown = "Missing required env vars" /\ exitCode = 1
    /\ thrown = "Missing required env vars" => listRequests = <<>> /\ calls = <<>>

\* the run failed at start-up with only the Slack token absent
C11_Witness ==
    /\ pc = "failed"
    /\ thrown = "Missing required env vars"
    /\ ~env["SLACK_BOT_TOKEN"]
    /\ env["AIRTABLE_BASE_ID"]
    /\ env["AIRTABLE_TOKEN"]
    /\ listRequests = <<>>

\* hubs whose update request awaits its response
awaiting == { i \in DOMAIN hubState : hubState[i] = "Calling" }

(* C12: execution is sequential: no hub is processed and no update call is
   issued before the Coordinators table is loaded and both lookups are built;
   hubs are processed one at a time in table order, a hub's call only after
   the call of every earlier hub has returned or failed; at most one update
   call is in flight. *)
C12_Sequential ==
    /\ (calls # <<>> \/ hubState # <<>>)
          => /\ coordinators = srvCoordinators
             /\ slackIdByCoordinatorRecordId = buildIndex(srvCoordinators).byId
             /\ slackIdByCoordinatorName = buildIndex(srvCoordinators).byName
             /\ hubs = srvHubs
    /\ Cardinality(awaiting) <= 1
    /\ inFlight = Cardinality(awaiting)
    /\ inFlight = 1 <=> pc = "update"
    /\ \A j, k \in DOMAIN calls : j < k => calls[j].hub < calls[k].hub
    /\ \A k \in DOMAIN calls :
           k < Len(calls) => hubState[calls[k].hub] \in {"Updated", "Failed"}
    /\ \A i \in DOMAIN hubState :
           hubState[i] # "Pending" => \A j \in 1..(i - 1) : hubState[j] \in TerminalStates
    /\ pc = "update" => hubState[hubIdx] = "Calling" /\ calls[Len(calls)].hub = hubIdx

\* the second update call is in flight after the first has returned or failed
C12_Witness ==
    /\ pc = "update"
    /\ Len(calls) = 2
    /\ awaiting = {calls[2].hub}
    /\ hubState[calls[1].hub] \in {"Updated", "Failed"}

\* main() is past the loop over coordinators
indexBuilt == table = "Hubs"

canonicalName(n) == normalizeName(coordinators[n].name)

(* C13: a coordinator record whose id field does not normalize is counted as
   invalid and enters neither lookup; every other record is registered under
   its record id, and under its canonical name only when that name is not
   empty; so invalid count + size of the record-id lookup = number of records. *)
C13_IndexBuilder ==
    indexBuilt =>
        /\ invalidSlackIdCount = Cardinality(DOMAIN coordinators \ indexed)
        /\ DOMAIN slackIdByCoordinatorRecordId = { coordinators[n].id : n \in indexed }
        /\ \A n \in indexed :
               slackIdByCoordinatorRecordId[coordinators[n].id]
                   = normalizeSlackId(coordinators[n].slack).s
        /\ \A k \in DOMAIN slackIdByCoordinatorName :
               /\ k # <<>>
               /\ \E n \in indexed :
                      /\ canonicalName(n) = JsStr(k)
                      /\ slackIdByCoordinatorName[k] = normalizeSlackId(coordinators[n].slack).s
        /\ \A n \in indexed :
               (truthy(canonicalName(n)) /\ canonicalName(n).s # sProto)
                  => canonicalName(n).s \in DOMAIN slackIdByCoordinatorName
        /\ invalidSlackIdCount + Cardinality(DOMAIN slackIdByCoordinatorRecordId)
               = Len(coordinators)

\* a record without an id but with the name of a valid record, which alone
\* fills both lookups
C13_Witness ==
    /\ indexBuilt
    /\ coordinators = <<cNoId, cAnna>>
    /\ invalidSlackIdCount = 1
    /\ DOMAIN slackIdByCoordinatorRecordId = {sRec2}
    /\ DOMAIN slackIdByCoordinatorName = {<<"a","n","n","a">>}

\* the last indexed coordinator with canonical name k
lastNamed(k) ==
    CHOOSE n \in indexed :
        /\ canonicalName(n) = JsStr(k)
        /\ \A m \in indexed : canonicalName(m) = JsStr(k) => m <= n

(* C14: when several coordinators with valid ids share a canonical name, the
   name lookup holds the id of the last of them in input order, and a name
   token for that name resolves to that id. *)
C14_LastWriteWins ==
    indexBuilt =>
        /\ \A k \in DOMAIN slackIdByCoordinatorName :
               slackIdByCoordinatorName[k]
                   = normalizeSlackId(coordinators[lastNamed(k)].slack).s
        /\ \A i \in resolvedHubs :
               \A j \in DOMAIN hubLocals[i].tokens :
                   LET t == hubLocals[i].tokens[j]
                       k == toLowerCase(trim(t))
                   IN (~startsWith(t, sRec) /\ k \in DOMAIN slackIdByCoordinatorName)
                         => hubLocals[i].mapped[j]
                                = normalizeSlackId(coordinators[lastNamed(k)].slack)

\* two coordinators named Suzi: the token Suzi resolves to the second one's id
C14_Witness ==
    /\ coordinators = <<cSuzi, cSuzi2>>
    /\ \E i \in resolvedHubs :
           /\ \E j \in DOMAIN hubLocals[i].tokens :
                  hubLocals[i].tokens[j] = sSuzi /\ hubLocals[i].mapped[j] = JsStr(sU333)
           /\ JsStr(sU111) \notin Range(hubLocals[i].slackUserIds)

\* the requests sent for one table, in order
requestsFor(name) == SelectSeq(listRequests, LAMBDA r : r.table = name)

served(name) == IF name = "Coordinators" THEN srvCoordinators ELSE srvHubs

\* the requests for a table chain the cursors: none on the first, then the
\* one the previous response returned
cursorsChained(name) ==
    LET reqs == requestsFor(name)
    IN \A k \in DOMAIN reqs :
           IF k = 1 THEN reqs[k].offset = 0
           ELSE /\ listPage(served(name), reqs[k - 1].offset).offset # 0
                /\ reqs[k].offset = listPage(served(name), reqs[k - 1].offset).offset

\* the records of the pages answered so far, page after page
RECURSIVE pagesOf(_, _)
pagesOf(name, reqs) ==
    IF reqs = <<>> THEN <<>>
    ELSE listPage(served(name), Head(reqs).offset).records \o pagesOf(name, Tail(reqs))

\* airtableList(name) returned result after its last request
listedAll(name, result) ==
    LET reqs == requestsFor(name)
    IN /\ reqs # <<>>
       /\ listPage(served(name), reqs[Len(reqs)].offset).offset = 0
       /\ result = pagesOf(name, reqs)
       /\ result = served(name)

hubsListed == pc \in {"update", "done"}

C18_Requests ==
    /\ cursorsChained("Coordinators")
    /\ cursorsChained("Hubs")
    /\ pc = "list" =>
           LET reqs == requestsFor(table)
           IN /\ reqs # <<>>
              /\ reqs[Len(reqs)].offset = offset
              /\ records = pagesOf(table, SubSeq(reqs, 1, Len(reqs) - 1))
    /\ indexBuilt => listedAll("Coordinators", coordinators)
    /\ hubsListed => listedAll("Hubs", hubs)

(* C18: airtableList sends its first request without a cursor and each later
   request with the cursor the previous response returned, stops at the first
   response without a cursor and returns the records of all pages in page
   order; as the service comes to a page without a cursor, the listing ends
   (by returning, or by throwing on a failed response). *)
C18_Pagination ==
    /\ []C18_Requests
    /\ (pc = "list" /\ table = "Coordinators") ~> (indexBuilt \/ pc = "failed")
    /\ (pc = "list" /\ table = "Hubs") ~> (hubsListed \/ pc = "failed")

\* three pages of coordinators were asked for and put together
C18_Witness ==
    /\ indexBuilt
    /\ Len(requestsFor("Coordinators")) = 3
    /\ coordinators = <<cSuzi, cNoId, cAnna>>
    /\ requestsFor("Coordinators")[3].offset # 0

(* C21: every member id carried by an update call is a string matching the
   user-id pattern (U or W, then at least two uppercase letters or digits),
   whatever tokens the hub holds. *)
C21_MembersAreSlackIds ==
    \A k \in DOMAIN calls :
        \A m \in DOMAIN calls[k].members : isSlackId(calls[k].members[m])

----------------------------------------------------------------------------
(* The helpers on their own: one call of one helper on one argument *)

\* longest string given to a helper
MaxStrLen == 3

\* most elements of a list given to a helper
MaxListLen == 2

ExplodeAlphabet == {"a", " ", ",", ";", "|", "\n"}
ListAlphabet == {"a", " ", ","}

StringsUpTo(alphabet, n) == UNION { [1..k -> alphabet] : k \in 0..n }

sEmily == <<"E","m","i","l","y">>
sSuziAnna == sSuzi \o <<",", " ">> \o sAnna

ExplodeInputs ==
    { JsStr(s) : s \in StringsUpTo(ExplodeAlphabet, MaxStrLen) }
    \cup { JsArr([k \in DOMAIN l |-> JsStr(l[k])]) :
             l \in UNION { [1..n -> StringsUpTo(ListAlphabet, MaxStrLen - 1)] : n \in 0..MaxListLen } }
    \cup { JsStr(sSuziAnna),
           JsArr(<<JsStr(sSuziAnna), JsStr(sEmily)>>),
           JsArr(<<JsStr(sRec1), JsStr(sRec2)>>),
           JsArr(<<JsStr(sAnna), JsStr(sAnna \o <<";">> \o sAnna)>>) }

sId == <<"i","d">>
sName == <<"n","a","m","e">>
sLabel == <<"l","a","b","e","l">>
sEmail == <<"e","m","a","i","l">>

\* values of the other shapes a coordinators field or one of its elements can have
ShapedItems ==
    { JsNull, JsUndefined, JsStr(sSuziAnna), JsNum(42), JsNum(0),
      JsObj(<<>>),
      JsObj(<< <<sEmail, JsStr(sSuzi)>> >>),
      JsObj(<< <<sId, JsStr(sU111)>> >>),
      JsObj(<< <<sId, JsStr(sRec1)>> >>),
      JsObj(<< <<sId, JsStr(sRec1 \o <<" ">>)>>, <<sName, JsStr(sSuzi)>> >>),
      JsObj(<< <<sId, JsStr(sU111)>>, <<sName, JsStr(<<" ">> \o sSuziAnna \o <<";">>)>> >>),
      JsObj(<< <<sLabel, JsStr(sEmily)>> >>),
      JsArr(<<JsStr(sSuzi)>>),
      JsArr(<<JsStr(sAnna), JsArr(<<JsStr(sEmily)>>)>>) }

ShapedInputs ==
    ShapedItems \cup { JsArr(l) : l \in UNION { [1..n -> ShapedItems] : n \in 1..MaxListLen } }

\* candidate strings of a Slack ID field that holds a list
IdCandidates ==
    { <<"n","/","a">>, <<>>, <<"<","@">> \o sU111 \o <<">">>, <<"x"," ","W","0","A","B">>,
      <<"U","1">> }

SlackIdListInputs ==
    { JsArr([k \in DOMAIN l |-> JsStr(l[k])]) :
        l \in UNION { [1..n -> IdCandidates] : n \in 1..(MaxListLen + 1) } }

NameAlphabet == {"a", "A", " "}
NameStrings == StringsUpTo(NameAlphabet, MaxStrLen)
NameInputs == { JsNull, JsUndefined } \cup { JsStr(s) : s \in NameStrings }

\* a Slack id inside a string: text before, the id bare or as a mention, text after
IdCase(before, id, mention, after) ==
    [id |-> id,
     text |-> before \o (IF mention THEN <<"<","@">> \o id \o <<">">> ELSE id) \o after]

IdCases ==
    { IdCase(before, id, mention, after) :
        before \in { <<>>, <<"x"," ">>, <<"i","d",":">>, <<"S","U","Z","I"," ">>, <<" ">> },
        id \in { sU111, <<"W","0","A","B">>, <<"U","0","7","A","B","C","9">> },
        mention \in BOOLEAN,
        after \in { <<>>, <<" ","o","k">>, <<"!">>, <<"\n">> } }

SlackIdInputs == { JsStr(c.text) : c \in IdCases }

InitFn ==
    /\ env = [s \in Secrets |-> TRUE]
    /\ pc = "off"
    /\ MainIdle
    /\ fnPc = "call"
    /\ fnRes = JsNull
    /\ \/ fnName = "explodeHubCoordinators" /\ fnArg \in ExplodeInputs \cup ShapedInputs
       \/ fnName = "normalizeSlackId" /\ fnArg \in SlackIdInputs \cup SlackIdListInputs
       \/ fnName = "normalizeName" /\ fnArg \in NameInputs

CallExplodeHubCoordinators ==
    /\ fnPc = "call"
    /\ fnName = "explodeHubCoordinators"
    /\ fnRes' = explodeHubCoordinators(fnArg)
    /\ fnPc' = "ret"
    /\ UNCHANGED <<mainVars, fnName, fnArg>>

CallNormalizeSlackId ==
    /\ fnPc = "call"
    /\ fnName = "normalizeSlackId"
    /\ fnRes' = normalizeSlackId(fnArg)
    /\ fnPc' = "ret"
    /\ UNCHANGED <<mainVars, fnName, fnArg>>

CallNormalizeName ==
    /\ fnPc = "call"
    /\ fnName = "normalizeName"
    /\ fnRes' = normalizeName(fnArg)
    /\ fnPc' = "ret"
    /\ UNCHANGED <<mainVars, fnName, fnArg>>

\* normalizeName applied to what it returned
CallNormalizeNameAgain ==
    /\ fnPc = "ret"
    /\ fnName = "normalizeName"
    /\ fnArg' = fnRes
    /\ fnRes' = normalizeName(fnRes)
    /\ fnPc' = "again"
    /\ UNCHANGED <<mainVars, fnName>>

NextFn ==
    \/ CallExplodeHubCoordinators
    \/ CallNormalizeSlackId
    \/ CallNormalizeName
    \/ CallNormalizeNameAgain

SpecFn == InitFn /\ [][NextFn]_vars

returned(name) == fnPc = "ret" /\ fnName = name

\* s without its leading and trailing whitespace, by positions
stripped(s) ==
    LET inked == { k \in DOMAIN s : s[k] \notin WhiteSpace }
    IN IF inked = {} THEN <<>>
       ELSE SubSeq(s, CHOOSE a \in inked : \A b \in inked : a <= b,
                      CHOOSE a \in inked : \A b \in inked : a >= b)

\* the pieces of s between delimiters, read one character at a time
RECURSIVE pieces(_, _)
pieces(s, piece) ==
    LET done == IF stripped(piece) = <<>> THEN <<>> ELSE <<stripped(piece)>>
    IN IF s = <<>> THEN done
       ELSE IF Head(s) \in {",", ";", "|", "\n"} THEN done \o pieces(Tail(s), <<>>)
       ELSE pieces(Tail(s), Append(piece, Head(s)))

RECURSIVE piecesOfAll(_)
piecesOfAll(items) ==
    IF items = <<>> THEN <<>> ELSE pieces(Head(items).s, <<>>) \o piecesOfAll(Tail(items))

(* C7: for a string or a list of strings explodeHubCoordinators returns, in
   input order and with duplicates, the trimmed non-empty pieces between runs
   of comma, semicolon, pipe and newline; a list element is split too. *)
C7_ExplodeStrings ==
    returned("explodeHubCoordinators") =>
        /\ fnArg.t = "string" => fnRes = pieces(fnArg.s, <<>>)
        /\ (fnArg.t = "array" /\ \A k \in DOMAIN fnArg.items : fnArg.items[k].t = "string")
              => fnRes = piecesOfAll(fnArg.items)
        /\ fnArg = JsStr(sSuziAnna) => fnRes = <<sSuzi, sAnna>>
        /\ fnArg = JsArr(<<JsStr(sSuziAnna), JsStr(sEmily)>>) => fnRes = <<sSuzi, sAnna, sEmily>>
        /\ fnArg = JsArr(<<JsStr(sRec1), JsStr(sRec2)>>) => fnRes = <<sRec1, sRec2>>

\* a list whose second element is split and repeats the first
C7_Witness ==
    /\ returned("explodeHubCoordinators")
    /\ fnArg = JsArr(<<JsStr(sAnna), JsStr(sAnna \o <<";">> \o sAnna)>>)
    /\ fnRes = <<sAnna, sAnna, sAnna>>

(* C9: for a string holding a Slack id, bare or as a mention <@...>, inside
   other text, normalizeSlackId returns exactly that id. *)
C9_ExtractsExactlyTheId ==
    returned("normalizeSlackId") =>
        \A c \in IdCases : fnArg = JsStr(c.text) => fnRes = JsStr(c.id)

\* what the elements contribute when a nested list contributes its elements' tokens
RECURSIVE tokensOfAll(_)
tokensOfAll(items) ==
    IF items = <<>> THEN <<>>
    ELSE (IF Head(items).t = "array" THEN tokensOfAll(Head(items).items)
          ELSE handleItem(Head(items)))
         \o tokensOfAll(Tail(items))

(* C15: explodeHubCoordinators applies its shape policy recursively: a list
   nested inside the coordinators list contributes, at its position, the
   tokens of its own elements, so no token of a nested list is lost. *)
C15_NestedSequences ==
    (returned("explodeHubCoordinators") /\ fnArg.t = "array")
        => fnRes = tokensOfAll(fnArg.items)

\* s holds a substring that is a Slack id
holdsSlackId(s) ==
    \E a \in DOMAIN s : \E b \in a..Len(s) : isSlackId(JsStr(SubSeq(s, a, b)))

(* C16: for a list of candidate strings normalizeSlackId returns an id
   whenever some element holds one, whatever the position of that element;
   the id it returns is part of one of the elements. *)
C16_IdAtAnyPosition ==
    (returned("normalizeSlackId") /\ fnArg.t = "array") =>
        LET holders == { k \in DOMAIN fnArg.items : holdsSlackId(fnArg.items[k].s) }
        IN /\ holders # {} =>
                 /\ isSlackId(fnRes)
                 /\ \E k \in holders : \E a \in DOMAIN fnArg.items[k].s :
                        \E b \in a..Len(fnArg.items[k].s) :
                            SubSeq(fnArg.items[k].s, a, b) = fnRes.s
           /\ holders = {} => fnRes = JsNull

\* a list of three candidates of which only the last holds an id
C16_Witness ==
    /\ returned("normalizeSlackId")
    /\ fnArg.t = "array"
    /\ Len(fnArg.items) = 3
    /\ ~holdsSlackId(fnArg.items[1].s)
    /\ ~holdsSlackId(fnArg.items[2].s)
    /\ holdsSlackId(fnArg.items[3].s)
    /\ isSlackId(fnRes)

withoutWhiteSpace(s) == SelectSeq(s, LAMBDA c : c \notin WhiteSpace)

\* the result of normalizeName is a fixed point of it, absent input included
nameIdempotent == (fnPc = "again" /\ fnName = "normalizeName") => fnRes = fnArg

(* C17 as stated: normalizeName is idempotent, and two names that differ only
   by letter case or by whitespace anywhere normalize to the same value. *)
C17_AnyWhiteSpace ==
    /\ nameIdempotent
    /\ (returned("normalizeName") /\ fnArg.t = "string") =>
           \A y \in NameStrings :
               toLowerCase(withoutWhiteSpace(y)) = toLowerCase(withoutWhiteSpace(fnArg.s))
                  => normalizeName(JsStr(y)) = fnRes

(* C17, amended: normalizeName is idempotent (absent input included), and two
   names that differ only by letter case or by leading and trailing
   whitespace normalize to the same value. *)
C17_OuterWhiteSpace ==
    /\ nameIdempotent
    /\ (returned("normalizeName") /\ isNullish(fnArg)) => fnRes = JsNull
    /\ (returned("normalizeName") /\ fnArg.t = "string") =>
           \A y \in NameStrings :
               toLowerCase(stripped(y)) = toLowerCase(stripped(fnArg.s))
                  => normalizeName(JsStr(y)) = fnRes

\* " A" was normalized to "a", as "a " is, and normalized again
C17_Witness ==
    /\ fnPc = "again"
    /\ fnName = "normalizeName"
    /\ fnArg = JsStr(<<"a">>)
    /\ fnRes = JsStr(<<"a">>)
    /\ normalizeName(JsStr(<<" ","A">>)) = fnRes
    /\ normalizeName(JsStr(<<"a"," ">>)) = fnRes

(* C19: for every input shape every token explodeHubCoordinators returns is a
   non-empty string without leading or trailing whitespace. *)
C19_TokensTrimmed ==
    returned("explodeHubCoordinators") =>
        \A k \in DOMAIN fnRes :
            /\ fnRes[k] # <<>>
            /\ fnRes[k][1] \notin WhiteSpace
            /\ fnRes[k][Len(fnRes[k])] \notin WhiteSpace

hasRecordIdAttr(v) == getAttr(v, sId).t = "string" /\ startsWith(getAttr(v, sId).s, sRec)

hasNameLikeAttr(v) == \E k \in DOMAIN commonKeys : getAttr(v, commonKeys[k]).t = "string"

\* a value none of the rules for absent values, strings, lists and structured
\* values with a record id or a name covers
uncovered(v) ==
    \/ v.t = "number"
    \/ v.t = "object" /\ ~hasRecordIdAttr(v) /\ ~hasNameLikeAttr(v)

\* the pieces of the string representations of items, of all of them or of
\* those that are not structured values
RECURSIVE coerced(_, _)
coerced(items, structuredToo) ==
    IF items = <<>> THEN <<>>
    ELSE (IF structuredToo \/ Head(items).t # "object"
          THEN pieces(String(Head(items)), <<>>) ELSE <<>>)
         \o coerced(Tail(items), structuredToo)

uncoveredItems ==
    IF fnArg.t = "array" /\ fnArg.items # <<>> /\ \A k \in DOMAIN fnArg.items : uncovered(fnArg.items[k])
    THEN fnArg.items
    ELSE IF uncovered(fnArg) THEN <<fnArg>>
    ELSE <<>>

(* C20 as stated: a value or list element of a shape no other rule covers,
   a structured value with neither a record id nor a name-like attribute
   included, is coerced to its string representation and split, so it
   contributes tokens. *)
C20_EveryOtherShapeCoerced ==
    (returned("explodeHubCoordinators") /\ uncoveredItems # <<>>)
        => fnRes = coerced(uncoveredItems, TRUE)

(* C20, amended: a value or list element that is neither absent, a string nor
   a structured value (a number) is coerced to its string representation and
   split; a structured value with neither a record id nor a name-like
   attribute contributes no token. *)
C20_OnlyUnstructuredCoerced ==
    (returned("explodeHubCoordinators") /\ uncoveredItems # <<>>)
        => fnRes = coerced(uncoveredItems, FALSE)

\* a number and an empty structured value in one list: only the number is a token
C20_Witness ==
    /\ returned("explodeHubCoordinators")
    /\ fnArg = JsArr(<<JsNum(42), JsObj(<<>>)>>)
    /\ fnRes = << <<"4","2">> >>

====
